---- MODULE Spec2Model ----
(***************************************************************************)
(* Gridfinity-Generator: the measurement pipeline of                       *)
(* src/lib/pictureProcessing.svelte.ts (detectObjectOnA4, with the sheet   *)
(* search it shares with detectA4Sheet) and the page's measureObject       *)
(* (Spec); the page of routes/+page.svelte, whose image selections and     *)
(* async calls interleave at their awaits (PageSpec).                      *)
(*                                                                         *)
(* A pixel buffer (cv.Mat, cv.MatVector) is a heap cell named by its       *)
(* allocation site; the vision library's outputs (the traced contours,     *)
(* their areas, vertex counts and bounding rectangles) are drawn from      *)
(* bounded sets; any primitive call or allocation may throw.               *)
(* Real numbers are kept exact: an area is a whole number of px^2, a       *)
(* ratio is compared by cross-multiplication, pixelsPerMm is a fraction.   *)
(***************************************************************************)
EXTENDS Integers, Sequences, FiniteSets, TLC

VARIABLES
    cvLoaded,           \* the vision library module is loaded (cv is truthy)
    selectedImage,      \* the page's selectedImage: "none", "bad" (undecodable), "ok"
    objectMeasurement,  \* the page's objectMeasurement
    bwImage,            \* the page's bwImage
    a4DetectionImage,   \* the page's a4DetectionImage
    readers,            \* files a FileReader is reading (onload not yet delivered)
    calls,              \* the page's pending async calls, each with its own locals
    operands,           \* buffer variable -> the variables the primitive that wrote it read
    ip,                 \* position in Prog (the body of detectObjectOnA4)
    lp,                 \* position inside the current loop iteration
    ref,                \* local variable -> buffer it references (NoBuf when null)
    live,               \* buffers allocated and not released
    freed,              \* buffers released
    dbl,                \* buffers whose delete() was called again after release
    contours,           \* the contours findContours traced on the edge map
    i,                  \* loop index (0-based, as in the code)
    maxArea,            \* maxArea of the sheet search
    a4Sel,              \* 1-based index of the contour whose approx a4Contour clones (0: none)
    warpedSize,         \* <<warped.cols, warped.rows>>
    pixelsPerMm,        \* the calibration scale as a fraction [num, den]
    objectContours,    \* the contours findContours traced on the closed mask
    largestObjectArea,  \* largestObjectArea of the object search
    largestSel,         \* 1-based index of the contour largestObjectContour clones (0: none)
    debug,              \* debug image name -> the buffer variable it renders
    measurements,       \* the local `measurements`
    ret,                \* value the call resolves to (Pending while running)
    thrownAt            \* source line of the primitive that threw ("" if none)

vars == <<cvLoaded, selectedImage, objectMeasurement, bwImage, a4DetectionImage,
          readers, calls, operands, ip, lp, ref, live, freed, dbl,
          contours, i, maxArea, a4Sel, warpedSize, pixelsPerMm, objectContours,
          largestObjectArea, largestSel, debug, measurements, ret, thrownAt>>

(***************************************************************************)
(* Program constants                                                       *)
(***************************************************************************)
MIN_CONTOUR_AREA == 10000
A4_WIDTH == 210
A4_HEIGHT == 297
\* ASPECT_RATIO_TOLERANCE = 0.15 = TOLERANCE_NUM / TOLERANCE_DEN
TOLERANCE_NUM == 15
TOLERANCE_DEN == 100
OBJECT_MIN_AREA == 1000
\* warpedImageArea * 0.005 = warpedImageArea / MIN_AREA_DIVISOR
MIN_AREA_DIVISOR == 200
\* warpedImageArea * 0.9 = warpedImageArea * MAX_AREA_NUM / MAX_AREA_DEN
MAX_AREA_NUM == 9
MAX_AREA_DEN == 10

(***************************************************************************)
(* Bounds                                                                  *)
(***************************************************************************)
MaxContours == 2
MaxObjects == 2
\* the async calls the page makes in one behaviour
MaxCalls == 3

\* null, as the value of a measurement variable or of the call
Null == [kind |-> "null"]
\* the call has not settled yet / the call's promise rejected
Pending == [kind |-> "pending"]
Rejected == [kind |-> "rejected"]
\* null, as the value of a buffer variable
NoBuf == <<"null", 0>>
\* no image rendered yet
NoImage == ""

Min(a, b) == IF a < b THEN a ELSE b
Max(a, b) == IF a > b THEN a ELSE b
Abs(a) == IF a < 0 THEN 0 - a ELSE a

(***************************************************************************)
(* What the vision library can report of a traced contour of the edge map: *)
(* contourArea, the rows of its polygon approximation, and the bounding    *)
(* rectangle of that approximation (the last one degenerate: its ratio     *)
(* 0/0 is NaN).                                                            *)
(***************************************************************************)
SheetContourKinds ==
    { [area |-> 9999,   rows |-> 4, width |-> 105, height |-> 140],
      [area |-> 10000,  rows |-> 4, width |-> 105, height |-> 140],
      [area |-> 60000,  rows |-> 4, width |-> 210, height |-> 297],
      [area |-> 240000, rows |-> 4, width |-> 594, height |-> 420],
      [area |-> 90000,  rows |-> 4, width |-> 300, height |-> 300],
      [area |-> 80000,  rows |-> 5, width |-> 210, height |-> 297],
      [area |-> 10000,  rows |-> 4, width |-> 0,   height |-> 0] }

(***************************************************************************)
(* What the library can report of a contour of the closed mask:            *)
(* contourArea and its bounding rectangle.                                 *)
(***************************************************************************)
ObjectContourKinds ==
    { [area |-> 1000,   width |-> 40,  height |-> 25],
      [area |-> 56133,  width |-> 200, height |-> 290],
      [area |-> 56134,  width |-> 201, height |-> 290] }

SeqsUpTo(S, n) == UNION { [1..k -> S] : k \in 0..n }

(***************************************************************************)
(* Sheet search: the tests of one loop iteration                           *)
(***************************************************************************)
\* |min/max - 210/297| < 0.15 or |min/max - 297/210| < 0.15, cross-multiplied;
\* a 0 x 0 rectangle gives 0/0 = NaN, and every comparison with NaN is false.
\* faulty variant: the tolerance doubled
AspectMatchesLoose(width, height) ==
    LET mn == Min(width, height)
        mx == Max(width, height)
    IN  /\ mx > 0
        /\ \/ Abs(mn * A4_HEIGHT - A4_WIDTH * mx) * TOLERANCE_DEN
                < 2 * TOLERANCE_NUM * A4_HEIGHT * mx
           \/ Abs(mn * A4_WIDTH - A4_HEIGHT * mx) * TOLERANCE_DEN
                < 2 * TOLERANCE_NUM * A4_WIDTH * mx

\* faulty variant: a comparison with NaN taken as true
AspectMatchesOrEmpty(width, height) ==
    LET mn == Min(width, height)
        mx == Max(width, height)
    IN  \/ mx = 0
        \/ Abs(mn * A4_HEIGHT - A4_WIDTH * mx) * TOLERANCE_DEN
              < TOLERANCE_NUM * A4_HEIGHT * mx
        \/ Abs(mn * A4_WIDTH - A4_HEIGHT * mx) * TOLERANCE_DEN
              < TOLERANCE_NUM * A4_WIDTH * mx

AspectMatches(width, height) ==
    LET mn == Min(width, height)
        mx == Max(width, height)
    IN  /\ mx > 0
        /\ \/ Abs(mn * A4_HEIGHT - A4_WIDTH * mx) * TOLERANCE_DEN
                < TOLERANCE_NUM * A4_HEIGHT * mx
           \/ Abs(mn * A4_WIDTH - A4_HEIGHT * mx) * TOLERANCE_DEN
                < TOLERANCE_NUM * A4_WIDTH * mx

\* faulty variant: an upper cap on the area as well
LargeEnoughCapped(c) == ~(c.area < MIN_CONTOUR_AREA) /\ c.area < 50 * MIN_CONTOUR_AREA

\* `if (area < MIN_CONTOUR_AREA) continue;`
LargeEnough(c) == ~(c.area < MIN_CONTOUR_AREA)

\* the contour reaches the `if (area > maxArea)` test
IsCandidate(c) ==
    /\ LargeEnough(c)
    /\ c.rows = 4
    /\ AspectMatches(c.width, c.height)

\* faulty variant: a tie replaces the current best
ReplacesOnTie(area, best) == area >= best

\* `if (area > maxArea)`: does the candidate replace the current best
Replaces(area, best) == area > best

(***************************************************************************)
(* detectA4Sheet's search (the same loop, cloning the contour instead of   *)
(* its approximation): the 1-based index of bestContour, 0 when none.      *)
(***************************************************************************)
\* faulty variant: a later candidate of the same area replaces the best
RECURSIVE detectA4SheetLoopLast(_, _, _, _)
detectA4SheetLoopLast(cs, k, best, mx) ==
    IF k > Len(cs) THEN best
    ELSE IF IsCandidate(cs[k]) /\ cs[k].area >= mx
         THEN detectA4SheetLoopLast(cs, k + 1, k, cs[k].area)
         ELSE detectA4SheetLoopLast(cs, k + 1, best, mx)

RECURSIVE detectA4SheetLoop(_, _, _, _)
detectA4SheetLoop(cs, k, best, mx) ==
    IF k > Len(cs) THEN best
    ELSE IF IsCandidate(cs[k]) /\ Replaces(cs[k].area, mx)
         THEN detectA4SheetLoop(cs, k + 1, k, cs[k].area)
         ELSE detectA4SheetLoop(cs, k + 1, best, mx)

bestContour(cs) == detectA4SheetLoop(cs, 1, 0, 0)

\* what detectA4Sheet renders: the image with the sheet outlined ("result") when
\* bestContour is set, the edge map otherwise
detectA4SheetShows(cs) == IF bestContour(cs) # 0 THEN "result" ELSE "edges"

(***************************************************************************)
(* Calibration                                                             *)
(***************************************************************************)
PixelsPerMm(warpedWidth, warpedHeight) ==
    LET isLandscape == warpedWidth > warpedHeight
        a4WidthInImage == IF isLandscape THEN warpedWidth ELSE warpedHeight
        a4RealWidth == IF isLandscape THEN A4_HEIGHT ELSE A4_WIDTH
    IN  [num |-> a4WidthInImage, den |-> a4RealWidth]

(***************************************************************************)
(* Object search: thresholds and the test of one loop iteration            *)
(***************************************************************************)
Frac(n, d) == [num |-> n, den |-> d]
FracLess(a, b) == a.num * b.den < b.num * a.den
FracEq(a, b) == a.num * b.den = b.num * a.den

\* Math.min(OBJECT_MIN_AREA, warpedImageArea * 0.005)
minAreaThreshold(regionArea) ==
    IF FracLess(Frac(OBJECT_MIN_AREA, 1), Frac(regionArea, MIN_AREA_DIVISOR))
    THEN Frac(OBJECT_MIN_AREA, 1)
    ELSE Frac(regionArea, MIN_AREA_DIVISOR)

\* warpedImageArea * 0.9
maxAreaThreshold(regionArea) ==
    Frac(regionArea * MAX_AREA_NUM, MAX_AREA_DEN)

\* faulty variant: inclusive bounds
QualifiesInclusive(area, regionArea) ==
    /\ ~FracLess(Frac(area, 1), minAreaThreshold(regionArea))
    /\ ~FracLess(maxAreaThreshold(regionArea), Frac(area, 1))

\* `if (area > minAreaThreshold && area < maxAreaThreshold)`
Qualifies(area, regionArea) ==
    /\ FracLess(minAreaThreshold(regionArea), Frac(area, 1))
    /\ FracLess(Frac(area, 1), maxAreaThreshold(regionArea))

(***************************************************************************)
(* The body of detectObjectOnA4 as a program: one instruction per          *)
(* statement that allocates, releases, calls a primitive or branches.      *)
(*   new   v     v = new cv.Mat() / MatVector() / clone() / roi()          *)
(*   call  f     a primitive call without an allocation                    *)
(*   del   v     v.delete()                                                *)
(*   show  v k   cv.imshow(canvas, v); k = canvas.toDataURL()              *)
(* `at` is the source line.                                                *)
(***************************************************************************)
I(op, v, k, at) == [op |-> op, v |-> v, k |-> k, at |-> at]

Prog ==
    << I("guardCv", "", "", 319),
       I("guardImage", "", "", 323),
       I("load", "src", "", 342),
       \* preprocessForContours(src)
       I("new", "pp.gray", "", 52),
       I("new", "pp.edges", "", 53),
       I("new", "pp.blurred", "", 54),
       I("call", "cvtColor", "", 57),
       I("call", "GaussianBlur", "", 60),
       I("call", "Canny", "", 63),
       I("del", "pp.blurred", "", 65),
       I("preprocessed", "", "", 346),
       \* Step 1: find the sheet
       I("new", "contours", "", 350),
       I("new", "hierarchy", "", 351),
       I("findContours", "", "", 352),
       I("loop1", "", "", 355),
       I("checkSheet", "", "", 387),
       \* Step 2: the sheet region
       I("call", "boundingRect", "", 395),
       I("roi", "warped", "", 405),
       I("show", "warped", "warped", 411),
       I("calibrate", "", "", 422),
       \* Step 3: segmentation
       I("new", "warpedGray", "", 425),
       I("call", "cvtColor", "", 426),
       I("new", "equalized", "", 429),
       I("call", "equalizeHist", "", 430),
       I("new", "thresh", "", 434),
       I("call", "threshold", "", 435),
       I("new", "adaptiveThresh", "", 438),
       I("call", "adaptiveThreshold", "", 439),
       I("show", "equalized", "equalized", 453),
       I("new", "blurred", "", 457),
       I("call", "GaussianBlur", "", 458),
       I("new", "warpedEdges", "", 459),
       I("call", "Canny", "", 460),
       I("del", "blurred", "", 461),
       I("del", "equalized", "", 462),
       I("show", "thresh", "thresh", 468),
       I("show", "warpedEdges", "edges", 475),
       I("new", "combined1", "", 479),
       I("call", "bitwise_or", "", 480),
       I("new", "combined", "", 481),
       I("call", "bitwise_or", "", 482),
       I("del", "combined1", "", 483),
       I("del", "adaptiveThresh", "", 484),
       I("show", "combined", "combined", 490),
       I("new", "kernel", "", 494),
       I("new", "closed", "", 495),
       I("call", "morphologyEx", "", 496),
       I("del", "kernel", "", 497),
       I("del", "combined", "", 498),
       I("show", "closed", "closed", 504),
       \* the object search
       I("new", "objectContours", "", 508),
       I("new", "objectHierarchy", "", 509),
       I("findObjects", "", "", 510),
       I("loop2", "", "", 524),
       I("new", "result", "", 541),
       I("branch", "", "", 544),
       \* if (largestObjectContour)
       I("call", "boundingRect", "", 546),
       I("new", "contoursVec", "", 555),
       I("call", "drawContours", "", 557),
       I("call", "rectangle", "", 566),
       I("call", "putText", "", 575),
       I("call", "putText", "", 586),
       I("del", "contoursVec", "", 596),
       I("del", "largestObjectContour", "", 597),
       I("show", "result", "imageUrl", 602),
       I("measured", "", "", 605),
       \* else
       I("show", "closed", "imageUrl", 623),
       I("zero", "", "", 627),
       \* clean up
       I("del", "result", "", 644),
       I("del", "thresh", "", 645),
       I("return", "", "", 647),
       I("finally", "", "", 651),
       \* the page: objectMeasurement = await detectObjectOnA4(selectedImage)
       I("settle", "", "", 40),
       I("done", "", "", 41) >>

\* the buffers a primitive call reads and the buffer it writes, by source line
CallArgs(at) ==
    CASE at = 57  -> [in |-> {"src"}, out |-> "pp.gray"]
      [] at = 60  -> [in |-> {"pp.gray"}, out |-> "pp.blurred"]
      [] at = 63  -> [in |-> {"pp.blurred"}, out |-> "pp.edges"]
      [] at = 426 -> [in |-> {"warped"}, out |-> "warpedGray"]
      [] at = 430 -> [in |-> {"warpedGray"}, out |-> "equalized"]
      [] at = 435 -> [in |-> {"warpedGray"}, out |-> "thresh"]
      [] at = 439 -> [in |-> {"warpedGray"}, out |-> "adaptiveThresh"]
      [] at = 458 -> [in |-> {"warpedGray"}, out |-> "blurred"]
      [] at = 460 -> [in |-> {"blurred"}, out |-> "warpedEdges"]
      [] at = 480 -> [in |-> {"thresh", "adaptiveThresh"}, out |-> "combined1"]
      [] at = 482 -> [in |-> {"combined1", "warpedEdges"}, out |-> "combined"]
      [] at = 496 -> [in |-> {"combined", "kernel"}, out |-> "closed"]
      [] OTHER    -> [in |-> {}, out |-> ""]

\* the position of the (single) instruction with this op, or at this line
AtOp(op) == CHOOSE k \in 1..Len(Prog) : Prog[k].op = op
AtLine(at) == CHOOSE k \in 1..Len(Prog) : Prog[k].at = at
Cur == Prog[ip]

LocalVars == { Prog[k].v : k \in { n \in 1..Len(Prog) : Prog[n].op \in {"new", "roi", "load"} } }
                 \cup {"gray", "edges", "contour", "approx", "a4Contour",
                       "largestObjectContour"}

\* the deletes of the finally block, in its order
FinallyVars ==
    << "closed", "objectContours", "objectHierarchy", "warpedEdges", "warpedGray",
       "warped", "a4Contour", "contours", "hierarchy", "src", "gray", "edges" >>

DebugKeys == {"warped", "equalized", "thresh", "edges", "combined", "closed", "imageUrl"}

\* a buffer is named by the variable it was first assigned to and, for the
\* clones of a loop, the iteration that took it
Buf(site, n) == <<site, n>>

(***************************************************************************)
(* The measurement record; a length or area is kept in tenths, as          *)
(* Math.round(x * 10) gives it before the division by 10                   *)
(***************************************************************************)
\* Math.round((px / scale) * 10), scale = num/den: floor(10 px den / num + 1/2)
\* (the fraction is reduced and the product split so that no intermediate value
\* exceeds the checker's 32-bit integers)
RECURSIVE Gcd(_, _)
Gcd(a, b) == IF b = 0 THEN a ELSE Gcd(b, a % b)

\* faulty variant: the tenths are truncated instead of rounded
RoundedTenthsTruncated(px, scale) ==
    IF scale.num = 0
    THEN (IF px = 0 THEN "NaN" ELSE "Infinity")
    ELSE LET g == Gcd(scale.num, scale.den)
             B == 10 * (scale.den \div g)
             C == scale.num \div g
         IN  (px \div C) * B + ((px % C) * B) \div C

RoundedTenths(px, scale) ==
    IF scale.num = 0
    THEN (IF px = 0 THEN "NaN" ELSE "Infinity")
    ELSE LET g == Gcd(scale.num, scale.den)
             B == 20 * (scale.den \div g)
             C == 2 * (scale.num \div g)
         IN  (px \div C) * B + ((px % C) * B + (scale.num \div g)) \div C

DebugImages == [k \in DebugKeys \ {"imageUrl"} |-> debug[k]]

MeasuredResult ==
    LET boundingRect == objectContours[largestSel]
        squared == Frac(pixelsPerMm.num * pixelsPerMm.num, pixelsPerMm.den * pixelsPerMm.den)
    IN  [ widthMm     |-> RoundedTenths(boundingRect.width, pixelsPerMm),
          heightMm    |-> RoundedTenths(boundingRect.height, pixelsPerMm),
          areaMm2     |-> RoundedTenths(largestObjectArea, squared),
          imageUrl    |-> debug["imageUrl"],
          debugImages |-> DebugImages ]

\* faulty variant: the no-object branch yields null
ZeroResultNull == Null

\* faulty variant: the no-object branch reports the last candidate's raw area
ZeroResultStale ==
    [ widthMm     |-> 0,
      heightMm    |-> 0,
      areaMm2     |-> IF Len(objectContours) > 0
                      THEN objectContours[Len(objectContours)].area ELSE 0,
      imageUrl    |-> debug["imageUrl"],
      debugImages |-> DebugImages ]

ZeroResult ==
    [ widthMm     |-> 0,
      heightMm    |-> 0,
      areaMm2     |-> 0,
      imageUrl    |-> debug["imageUrl"],
      debugImages |-> DebugImages ]

(***************************************************************************)
(* The finally block: delete() of every tracked variable that is not null, *)
(* in order.  delete() on a handle that was already released throws        *)
(* (the binding's "instance already deleted"), which ends the block.       *)
(***************************************************************************)
RECURSIVE FinallyFrom(_, _, _)
FinallyFrom(k, lv, fr) ==
    IF k > Len(FinallyVars) THEN [live |-> lv, freed |-> fr, dbl |-> {}]
    ELSE LET b == ref[FinallyVars[k]]
         IN  IF b = NoBuf THEN FinallyFrom(k + 1, lv, fr)
             ELSE IF b \in lv THEN FinallyFrom(k + 1, lv \ {b}, fr \cup {b})
             ELSE [live |-> lv, freed |-> fr, dbl |-> {b}]

(***************************************************************************)
(* State machine                                                           *)
(***************************************************************************)
envVars == <<cvLoaded, selectedImage, bwImage, a4DetectionImage, readers, calls>>
heapVars == <<ref, live, freed, dbl>>
sheetVars == <<contours, maxArea, a4Sel>>
regionVars == <<warpedSize, pixelsPerMm>>
objectVars == <<objectContours, largestObjectArea, largestSel>>

Init ==
    /\ cvLoaded \in BOOLEAN
    /\ selectedImage \in {"none", "bad", "ok"}
    /\ objectMeasurement = Null
    /\ bwImage = Null
    /\ a4DetectionImage = Null
    /\ readers = {}
    /\ calls = <<>>
    /\ operands = [v \in LocalVars |-> {}]
    /\ ip = 1
    /\ lp = "head"
    /\ ref = [v \in LocalVars |-> NoBuf]
    /\ live = {}
    /\ freed = {}
    /\ dbl = {}
    /\ contours = <<>>
    /\ i = 0
    /\ maxArea = 0
    /\ a4Sel = 0
    /\ warpedSize = <<0, 0>>
    /\ pixelsPerMm = Null
    /\ objectContours = <<>>
    /\ largestObjectArea = 0
    /\ largestSel = 0
    /\ debug = [k \in DebugKeys |-> NoImage]
    /\ measurements = Null
    /\ ret = Pending
    /\ thrownAt = 0

\* if (!cv) return null;
GuardCv ==
    /\ Cur.op = "guardCv"
    /\ IF cvLoaded THEN ip' = ip + 1 /\ ret' = ret
                   ELSE ip' = AtOp("settle") /\ ret' = Null
    /\ UNCHANGED <<envVars, operands, objectMeasurement, lp, heapVars, sheetVars, i, regionVars,
                   objectVars, debug, measurements, thrownAt>>

\* if (!imageDataUrl) return null;
GuardImage ==
    /\ Cur.op = "guardImage"
    /\ IF selectedImage # "none" THEN ip' = ip + 1 /\ ret' = ret
                                 ELSE ip' = AtOp("settle") /\ ret' = Null
    /\ UNCHANGED <<envVars, operands, objectMeasurement, lp, heapVars, sheetVars, i, regionVars,
                   objectVars, debug, measurements, thrownAt>>

\* const loadResult = await loadImageToMat(imageDataUrl); src = loadResult.mat;
Load ==
    /\ Cur.op = "load"
    /\ selectedImage = "ok"
    /\ ref' = [ref EXCEPT !["src"] = Buf("src", 0)]
    /\ live' = live \cup {Buf("src", 0)}
    /\ ip' = ip + 1
    /\ UNCHANGED <<envVars, operands, objectMeasurement, lp, freed, dbl, sheetVars, i, regionVars,
                   objectVars, debug, measurements, ret, thrownAt>>

ExecNew ==
    /\ Cur.op = "new"
    /\ ref' = [ref EXCEPT ![Cur.v] = Buf(Cur.v, 0)]
    /\ live' = live \cup {Buf(Cur.v, 0)}
    /\ ip' = ip + 1
    /\ UNCHANGED <<envVars, operands, objectMeasurement, lp, freed, dbl, sheetVars, i, regionVars,
                   objectVars, debug, measurements, ret, thrownAt>>

ExecCall ==
    /\ Cur.op = "call"
    /\ operands' = IF CallArgs(Cur.at).out = ""
                   THEN operands
                   ELSE [operands EXCEPT ![CallArgs(Cur.at).out] = CallArgs(Cur.at).in]
    /\ ip' = ip + 1
    /\ UNCHANGED <<envVars, objectMeasurement, lp, heapVars, sheetVars, i, regionVars,
                   objectVars, debug, measurements, ret, thrownAt>>

ExecDel ==
    /\ Cur.op = "del"
    /\ ref[Cur.v] \in live
    /\ live' = live \ {ref[Cur.v]}
    /\ freed' = freed \cup {ref[Cur.v]}
    /\ ip' = ip + 1
    /\ UNCHANGED <<envVars, operands, objectMeasurement, lp, ref, dbl, sheetVars, i, regionVars,
                   objectVars, debug, measurements, ret, thrownAt>>

ExecShow ==
    /\ Cur.op = "show"
    /\ debug' = [debug EXCEPT ![Cur.k] = Cur.v]
    /\ ip' = ip + 1
    /\ UNCHANGED <<envVars, operands, objectMeasurement, lp, heapVars, sheetVars, i, regionVars,
                   objectVars, measurements, ret, thrownAt>>

\* gray = preprocessed.gray; edges = preprocessed.edges;
Preprocessed ==
    /\ Cur.op = "preprocessed"
    /\ ref' = [ref EXCEPT !["gray"] = ref["pp.gray"], !["edges"] = ref["pp.edges"]]
    /\ ip' = ip + 1
    /\ UNCHANGED <<envVars, operands, objectMeasurement, lp, live, freed, dbl, sheetVars, i,
                   regionVars, objectVars, debug, measurements, ret, thrownAt>>

\* cv.findContours(edges, contours, hierarchy, ...); let maxArea = 0;
FindContours ==
    /\ Cur.op = "findContours"
    /\ \E cs \in SeqsUpTo(SheetContourKinds, MaxContours) : contours' = cs
    /\ maxArea' = 0
    /\ i' = 0
    /\ ip' = ip + 1
    /\ UNCHANGED <<envVars, operands, objectMeasurement, lp, heapVars, a4Sel, regionVars,
                   objectVars, debug, measurements, ret, thrownAt>>

(***************************************************************************)
(* The sheet search loop, lines 355-385                                    *)
(***************************************************************************)
CurContour == contours[i + 1]

\* i < contours.size(); contour = contours.get(i); area = cv.contourArea(contour);
\* if (area < MIN_CONTOUR_AREA) continue;
\* (get(i) hands out a new cv.Mat handle on the i-th contour: the binding returns
\* the element by value, and what it returns lives until delete() is called on it)
Loop1Head ==
    /\ Cur.op = "loop1" /\ lp = "head"
    /\ IF i >= Len(contours)
       THEN ip' = ip + 1 /\ i' = i /\ lp' = lp /\ UNCHANGED <<ref, live>>
       ELSE /\ ref' = [ref EXCEPT !["contour"] = Buf("contours.get", i)]
            /\ live' = live \cup {Buf("contours.get", i)}
            /\ IF ~LargeEnough(CurContour) THEN ip' = ip /\ i' = i + 1 /\ lp' = lp
               ELSE ip' = ip /\ i' = i /\ lp' = "alloc"
    /\ UNCHANGED <<envVars, operands, objectMeasurement, freed, dbl, sheetVars, regionVars,
                   objectVars, debug, measurements, ret, thrownAt>>

\* peri = cv.arcLength(contour, true); approx = new cv.Mat();
Loop1Alloc ==
    /\ Cur.op = "loop1" /\ lp = "alloc"
    /\ ref' = [ref EXCEPT !["approx"] = Buf("approx", i)]
    /\ live' = live \cup {Buf("approx", i)}
    /\ lp' = "test"
    /\ UNCHANGED <<envVars, operands, objectMeasurement, ip, freed, dbl, sheetVars, i, regionVars,
                   objectVars, debug, measurements, ret, thrownAt>>

\* cv.approxPolyDP(...); if (approx.rows === 4) { rect = cv.boundingRect(approx);
\* if (<aspect ratio matches>) { if (area > maxArea) {
Loop1Test ==
    /\ Cur.op = "loop1" /\ lp = "test"
    /\ lp' = IF /\ CurContour.rows = 4
                /\ AspectMatches(CurContour.width, CurContour.height)
                /\ Replaces(CurContour.area, maxArea)
             THEN "select" ELSE "fin"
    /\ UNCHANGED <<envVars, operands, objectMeasurement, ip, heapVars, sheetVars, i, regionVars,
                   objectVars, debug, measurements, ret, thrownAt>>

\* maxArea = area; if (a4Contour) a4Contour.delete(); a4Contour = approx.clone();
Loop1Select ==
    /\ Cur.op = "loop1" /\ lp = "select"
    /\ maxArea' = CurContour.area
    /\ a4Sel' = i + 1
    /\ ref' = [ref EXCEPT !["a4Contour"] = Buf("a4Contour", i)]
    /\ live' = (live \ {ref["a4Contour"]}) \cup {Buf("a4Contour", i)}
    /\ freed' = IF ref["a4Contour"] # NoBuf THEN freed \cup {ref["a4Contour"]} ELSE freed
    /\ lp' = "fin"
    /\ UNCHANGED <<envVars, operands, objectMeasurement, ip, dbl, contours, i, regionVars,
                   objectVars, debug, measurements, ret, thrownAt>>

\* } finally { approx.delete(); }  i++
Loop1Fin ==
    /\ Cur.op = "loop1" /\ lp = "fin"
    /\ live' = live \ {ref["approx"]}
    /\ freed' = freed \cup {ref["approx"]}
    /\ i' = i + 1
    /\ lp' = "head"
    /\ UNCHANGED <<envVars, operands, objectMeasurement, ip, ref, dbl, sheetVars, regionVars,
                   objectVars, debug, measurements, ret, thrownAt>>

\* a primitive of the loop throws: the inner finally releases approx when the
\* throw is inside the inner try, and the outer catch returns null
ThrowLoop1 ==
    /\ Cur.op = "loop1"
    /\ \/ /\ lp = "head" /\ i < Len(contours)           \* contours.get(i)
          /\ thrownAt' = 356
          /\ UNCHANGED <<live, freed, maxArea>>
       \/ /\ lp = "alloc"                               \* cv.arcLength, new cv.Mat()
          /\ thrownAt' = 362
          /\ UNCHANGED <<live, freed, maxArea>>
       \/ /\ lp = "test"                                \* cv.approxPolyDP, cv.boundingRect
          /\ thrownAt' = 365
          /\ live' = live \ {ref["approx"]}
          /\ freed' = freed \cup {ref["approx"]}
          /\ UNCHANGED maxArea
       \/ /\ lp = "select"                              \* approx.clone()
          /\ thrownAt' = 378
          /\ maxArea' = CurContour.area
          /\ live' = live \ {ref["approx"], ref["a4Contour"]}
          /\ freed' = freed \cup ({ref["approx"], ref["a4Contour"]} \ {NoBuf})
    /\ ret' = Null
    /\ ip' = AtOp("finally")
    /\ lp' = "head"
    /\ UNCHANGED <<envVars, operands, objectMeasurement, ref, dbl, contours, a4Sel, i, regionVars,
                   objectVars, debug, measurements>>

\* if (!a4Contour) { return null; }
CheckSheet ==
    /\ Cur.op = "checkSheet"
    /\ IF ref["a4Contour"] = NoBuf THEN ip' = AtOp("finally") /\ ret' = Null
                                  ELSE ip' = ip + 1 /\ ret' = ret
    /\ UNCHANGED <<envVars, operands, objectMeasurement, lp, heapVars, sheetVars, i, regionVars,
                   objectVars, debug, measurements, thrownAt>>

(***************************************************************************)
(* The sheet region and the calibration scale, lines 395-422               *)
(***************************************************************************)
\* a4BoundingRect = cv.boundingRect(a4Contour); warped = src.roi(roi);
Roi ==
    /\ Cur.op = "roi"
    /\ ref' = [ref EXCEPT !["warped"] = Buf("warped", 0)]
    /\ live' = live \cup {Buf("warped", 0)}
    /\ warpedSize' = <<contours[a4Sel].width, contours[a4Sel].height>>
    /\ ip' = ip + 1
    /\ UNCHANGED <<envVars, operands, objectMeasurement, lp, freed, dbl, sheetVars, i, pixelsPerMm,
                   objectVars, debug, measurements, ret, thrownAt>>

Calibrate ==
    /\ Cur.op = "calibrate"
    /\ pixelsPerMm' = PixelsPerMm(warpedSize[1], warpedSize[2])
    /\ ip' = ip + 1
    /\ UNCHANGED <<envVars, operands, objectMeasurement, lp, heapVars, sheetVars, i, warpedSize,
                   objectVars, debug, measurements, ret, thrownAt>>

(***************************************************************************)
(* The object search, lines 510-538                                        *)
(***************************************************************************)
\* const warpedImageArea = warped.cols * warped.rows;
warpedImageArea == warpedSize[1] * warpedSize[2]
CurObject == objectContours[i + 1]

\* cv.findContours(closed, objectContours, objectHierarchy, ...);
\* largestObjectContour = null; largestObjectArea = 0;
FindObjects ==
    /\ Cur.op = "findObjects"
    /\ \E os \in SeqsUpTo(ObjectContourKinds, MaxObjects) : objectContours' = os
    /\ largestObjectArea' = 0
    /\ i' = 0
    /\ ip' = ip + 1
    /\ UNCHANGED <<envVars, operands, objectMeasurement, lp, heapVars, sheetVars, regionVars,
                   largestSel, debug, measurements, ret, thrownAt>>

\* i < objectContours.size(); contour = objectContours.get(i);
\* area = cv.contourArea(contour);
\* if (area > minAreaThreshold && area < maxAreaThreshold) { if (area > largestObjectArea) {
Loop2Head ==
    /\ Cur.op = "loop2" /\ lp = "head"
    /\ IF i >= Len(objectContours)
       THEN ip' = ip + 1 /\ i' = i /\ lp' = lp /\ UNCHANGED <<ref, live>>
       ELSE /\ ref' = [ref EXCEPT !["contour"] = Buf("objectContours.get", i)]
            /\ live' = live \cup {Buf("objectContours.get", i)}
            /\ IF /\ Qualifies(CurObject.area, warpedImageArea)
                  /\ Replaces(CurObject.area, largestObjectArea)
               THEN ip' = ip /\ i' = i /\ lp' = "select"
               ELSE ip' = ip /\ i' = i + 1 /\ lp' = lp
    /\ UNCHANGED <<envVars, operands, objectMeasurement, freed, dbl, sheetVars, regionVars,
                   objectVars, debug, measurements, ret, thrownAt>>

\* largestObjectArea = area; if (largestObjectContour) largestObjectContour.delete();
\* largestObjectContour = contour.clone();
Loop2Select ==
    /\ Cur.op = "loop2" /\ lp = "select"
    /\ largestObjectArea' = CurObject.area
    /\ largestSel' = i + 1
    /\ ref' = [ref EXCEPT !["largestObjectContour"] = Buf("largestObjectContour", i)]
    /\ live' = (live \ {ref["largestObjectContour"]}) \cup {Buf("largestObjectContour", i)}
    /\ freed' = IF ref["largestObjectContour"] # NoBuf
                THEN freed \cup {ref["largestObjectContour"]} ELSE freed
    /\ i' = i + 1
    /\ lp' = "head"
    /\ UNCHANGED <<envVars, operands, objectMeasurement, ip, dbl, sheetVars, regionVars,
                   objectContours, debug, measurements, ret, thrownAt>>

ThrowLoop2 ==
    /\ Cur.op = "loop2"
    /\ \/ /\ lp = "head" /\ i < Len(objectContours)     \* objectContours.get(i)
          /\ thrownAt' = 525
          /\ UNCHANGED <<live, freed, largestObjectArea>>
       \/ /\ lp = "select"                              \* contour.clone()
          /\ thrownAt' = 535
          /\ largestObjectArea' = CurObject.area
          /\ live' = live \ {ref["largestObjectContour"]}
          /\ freed' = freed \cup ({ref["largestObjectContour"]} \ {NoBuf})
    /\ ret' = Null
    /\ ip' = AtOp("finally")
    /\ lp' = "head"
    /\ UNCHANGED <<envVars, operands, objectMeasurement, ref, dbl, sheetVars, i, regionVars,
                   objectContours, largestSel, debug, measurements>>

(***************************************************************************)
(* The result, lines 541-647                                               *)
(***************************************************************************)
\* if (largestObjectContour) { ... } else { ... }
Branch ==
    /\ Cur.op = "branch"
    /\ ip' = IF ref["largestObjectContour"] # NoBuf THEN ip + 1 ELSE AtLine(623)
    /\ UNCHANGED <<envVars, operands, objectMeasurement, lp, heapVars, sheetVars, i, regionVars,
                   objectVars, debug, measurements, ret, thrownAt>>

\* measurements = { widthMm, heightMm, areaMm2, imageUrl: resultImageUrl, debugImages }
Measured ==
    /\ Cur.op = "measured"
    /\ measurements' = MeasuredResult
    /\ ip' = AtLine(644)
    /\ UNCHANGED <<envVars, operands, objectMeasurement, lp, heapVars, sheetVars, i, regionVars,
                   objectVars, debug, ret, thrownAt>>

\* measurements = { widthMm: 0, heightMm: 0, areaMm2: 0, imageUrl: debugImageUrl, debugImages }
Zero ==
    /\ Cur.op = "zero"
    /\ measurements' = ZeroResult
    /\ ip' = AtLine(644)
    /\ UNCHANGED <<envVars, operands, objectMeasurement, lp, heapVars, sheetVars, i, regionVars,
                   objectVars, debug, ret, thrownAt>>

\* return measurements;
Return ==
    /\ Cur.op = "return"
    /\ ret' = measurements
    /\ ip' = AtOp("finally")
    /\ UNCHANGED <<envVars, operands, objectMeasurement, lp, heapVars, sheetVars, i, regionVars,
                   objectVars, debug, measurements, thrownAt>>

\* a primitive call or an allocation of the straight-line code throws (the await
\* of loadImageToMat rejects): catch (error) { return null; }
CanThrow(op) == op \in {"load", "new", "call", "show", "findContours", "roi", "findObjects"}

Throw ==
    /\ CanThrow(Cur.op)
    /\ thrownAt' = Cur.at
    /\ ret' = Null
    /\ ip' = AtOp("finally")
    /\ UNCHANGED <<envVars, operands, objectMeasurement, lp, heapVars, sheetVars, i, regionVars,
                   objectVars, debug, measurements>>

\* finally { if (closed) closed.delete(); ... if (edges) edges.delete(); }
\* a throw out of the finally block replaces the return value: the call rejects
Finally ==
    /\ Cur.op = "finally"
    /\ LET f == FinallyFrom(1, live, freed)
       IN  /\ live' = f.live
           /\ freed' = f.freed
           /\ dbl' = dbl \cup f.dbl
           /\ ret' = IF f.dbl # {} THEN Rejected ELSE ret
    /\ ip' = ip + 1
    /\ UNCHANGED <<envVars, operands, objectMeasurement, lp, ref, sheetVars, i, regionVars,
                   objectVars, debug, measurements, thrownAt>>

(***************************************************************************)
(* The page: async function measureObject()                                *)
(***************************************************************************)
\* objectMeasurement = await detectObjectOnA4(selectedImage);
\* a rejected call leaves objectMeasurement as it was
Settle ==
    /\ Cur.op = "settle"
    /\ objectMeasurement' = IF ret = Rejected THEN objectMeasurement ELSE ret
    /\ ip' = ip + 1
    /\ UNCHANGED <<envVars, operands, lp, heapVars, sheetVars, i, regionVars, objectVars, debug,
                   measurements, ret, thrownAt>>

Next ==
    \/ GuardCv \/ GuardImage \/ Load \/ ExecNew \/ ExecCall \/ ExecDel \/ ExecShow
    \/ Preprocessed \/ FindContours
    \/ Loop1Head \/ Loop1Alloc \/ Loop1Test \/ Loop1Select \/ Loop1Fin \/ ThrowLoop1
    \/ CheckSheet \/ Roi \/ Calibrate
    \/ FindObjects \/ Loop2Head \/ Loop2Select \/ ThrowLoop2
    \/ Branch \/ Measured \/ Zero \/ Return \/ Throw \/ Finally \/ Settle

Spec == Init /\ [][Next]_vars

Done == Cur.op = "done"

(***************************************************************************)
(* detectObjectOnA4 as a function of what the library traces: from the     *)
(* await at line 342 to the return the body has no further await, so it    *)
(* runs to completion before any other handler.                            *)
(***************************************************************************)
\* the object search, lines 524-538: 1-based index of largestObjectContour, 0: null
RECURSIVE largestObjectLoop(_, _, _, _, _)
largestObjectLoop(os, k, best, mx, regionArea) ==
    IF k > Len(os) THEN best
    ELSE IF Qualifies(os[k].area, regionArea) /\ Replaces(os[k].area, mx)
         THEN largestObjectLoop(os, k + 1, k, os[k].area, regionArea)
         ELSE largestObjectLoop(os, k + 1, best, mx, regionArea)

\* the value returned when no primitive throws
detectObjectOnA4Returns(cs, os) ==
    LET a4 == detectA4SheetLoop(cs, 1, 0, 0)
    IN  IF a4 = 0 THEN Null
        ELSE LET warpedWidth == cs[a4].width
                 warpedHeight == cs[a4].height
                 scale == PixelsPerMm(warpedWidth, warpedHeight)
                 squared == Frac(scale.num * scale.num, scale.den * scale.den)
                 largest == largestObjectLoop(os, 1, 0, 0, warpedWidth * warpedHeight)
                 debugImages == [ warped |-> "warped", equalized |-> "equalized",
                                  thresh |-> "thresh", edges |-> "warpedEdges",
                                  combined |-> "combined", closed |-> "closed" ]
             IN  IF largest = 0
                 THEN [ widthMm |-> 0, heightMm |-> 0, areaMm2 |-> 0,
                        imageUrl |-> "closed", debugImages |-> debugImages ]
                 ELSE [ widthMm     |-> RoundedTenths(os[largest].width, scale),
                        heightMm    |-> RoundedTenths(os[largest].height, scale),
                        areaMm2     |-> RoundedTenths(os[largest].area, squared),
                        imageUrl    |-> "result",
                        debugImages |-> debugImages ]

(***************************************************************************)
(* The page, routes/+page.svelte: image selections and async calls that    *)
(* interleave at their awaits.                                             *)
(***************************************************************************)
\* the photos the user can pick
Photos == {"ok", "other"}

\* what the library traces on each photo: a sheet in portrait with a small object,
\* a sheet in landscape with a large one
Scene(img) ==
    IF img = "ok"
    THEN [ contours |-> << [area |-> 60000, rows |-> 4, width |-> 210, height |-> 297] >>,
           objectContours |-> << [area |-> 1000, width |-> 40, height |-> 25] >> ]
    ELSE [ contours |-> << [area |-> 240000, rows |-> 4, width |-> 594, height |-> 420] >>,
           objectContours |-> << [area |-> 56133, width |-> 200, height |-> 290] >> ]

\* a rendered image (a data URL): what it shows, of which photo
Rendered(shows, img) == [shows |-> shows, of |-> img]

\* faulty variant: the continuation works on the page's current selection
ImageOfSelection(c) == selectedImage

\* the image a pending library call works on: its argument imageDataUrl
ImageOf(c) == c.imageDataUrl

\* detectEdges(imageDataUrl) when nothing throws
detectEdgesValue(img) ==
    IF ~cvLoaded \/ img = "none" THEN Null ELSE Rendered("edges", img)

\* detectA4Sheet(imageDataUrl) when nothing throws
detectA4SheetValue(img) ==
    IF ~cvLoaded \/ img = "none" THEN Null
    ELSE Rendered(detectA4SheetShows(Scene(img).contours), img)

\* detectObjectOnA4(imageDataUrl) when nothing throws
detectObjectOnA4Value(img) ==
    IF ~cvLoaded \/ img = "none" THEN Null
    ELSE LET m == detectObjectOnA4Returns(Scene(img).contours, Scene(img).objectContours)
         IN  IF m = Null THEN Null
             ELSE [m EXCEPT !.imageUrl = Rendered(m.imageUrl, img)]

machineVars == <<operands, ip, lp, ref, live, freed, dbl, contours, i, maxArea, a4Sel,
                 warpedSize, pixelsPerMm, objectContours, largestObjectArea, largestSel,
                 debug, measurements, ret, thrownAt>>

PageInit ==
    /\ Init
    /\ selectedImage = "none"

\* the calls that have not returned yet
PendingCalls == { k \in 1..Len(calls) : calls[k].stage # "returned" }

Call(fn, stage) ==
    [ fn |-> fn, stage |-> stage, imageDataUrl |-> selectedImage,
      overlaps |-> PendingCalls, result |-> Null ]

\* handleImageSelect: reader.readAsDataURL(file)
handleImageSelect ==
    /\ \E file \in Photos \ readers : readers' = readers \cup {file}
    /\ UNCHANGED <<cvLoaded, selectedImage, objectMeasurement, bwImage, a4DetectionImage,
                   calls, machineVars>>

\* reader.onload: selectedImage = result; the three processed values reset to null
readerOnload ==
    /\ \E file \in readers :
          /\ selectedImage' = file
          /\ readers' = readers \ {file}
    /\ bwImage' = Null
    /\ a4DetectionImage' = Null
    /\ objectMeasurement' = Null
    /\ UNCHANGED <<cvLoaded, calls, machineVars>>

\* click on "Kantenerkennung" ({#if selectedImage}): detectEdges(selectedImage) called
processPicture ==
    /\ selectedImage # "none"
    /\ Len(calls) < MaxCalls
    /\ calls' = Append(calls, Call("processPicture", "detectEdges"))
    /\ UNCHANGED <<cvLoaded, selectedImage, objectMeasurement, bwImage, a4DetectionImage,
                   readers, machineVars>>

\* click on "Objekt vermessen" ({#if bwImage && a4DetectionImage}):
\* detectObjectOnA4(selectedImage) called
measureObject ==
    /\ bwImage # Null /\ a4DetectionImage # Null
    /\ Len(calls) < MaxCalls
    /\ calls' = Append(calls, Call("measureObject", "detectObjectOnA4"))
    /\ UNCHANGED <<cvLoaded, selectedImage, objectMeasurement, bwImage, a4DetectionImage,
                   readers, machineVars>>

\* bwImage = await detectEdges(...): the image loads (or fails to), detectEdges
\* runs to its return, and processPicture goes on to call
\* detectA4Sheet(selectedImage)
detectEdgesSettles ==
    /\ \E k \in PendingCalls, threw \in BOOLEAN :
          /\ calls[k].stage = "detectEdges"
          /\ bwImage' = IF threw THEN Null ELSE detectEdgesValue(ImageOf(calls[k]))
          /\ calls' = [calls EXCEPT ![k].stage = "detectA4Sheet",
                                    ![k].imageDataUrl = selectedImage]
    /\ UNCHANGED <<cvLoaded, selectedImage, objectMeasurement, a4DetectionImage, readers,
                   machineVars>>

\* a4DetectionImage = await detectA4Sheet(...)
detectA4SheetSettles ==
    /\ \E k \in PendingCalls, threw \in BOOLEAN :
          /\ calls[k].stage = "detectA4Sheet"
          /\ a4DetectionImage' = IF threw THEN Null
                                  ELSE detectA4SheetValue(ImageOf(calls[k]))
          /\ calls' = [calls EXCEPT ![k].stage = "returned"]
    /\ UNCHANGED <<cvLoaded, selectedImage, objectMeasurement, bwImage, readers,
                   machineVars>>

\* objectMeasurement = await detectObjectOnA4(...)
detectObjectOnA4Settles ==
    /\ \E k \in PendingCalls, threw \in BOOLEAN :
          /\ calls[k].stage = "detectObjectOnA4"
          /\ LET value == IF threw THEN Null ELSE detectObjectOnA4Value(ImageOf(calls[k]))
             IN  /\ objectMeasurement' = value
                 /\ calls' = [calls EXCEPT ![k].stage = "returned", ![k].result = value]
    /\ UNCHANGED <<cvLoaded, selectedImage, bwImage, a4DetectionImage, readers,
                   machineVars>>

PageNext ==
    \/ handleImageSelect \/ readerOnload \/ processPicture \/ measureObject
    \/ detectEdgesSettles \/ detectA4SheetSettles \/ detectObjectOnA4Settles

PageSpec == PageInit /\ [][PageNext]_vars

(***************************************************************************)
(* Properties                                                              *)
(***************************************************************************)
Returned == Cur.op \in {"settle", "done"}

\* the sheet search ran to its end (nothing threw inside the loop)
Loop1Lines == 355..385
SheetSearchDone == ip > AtOp("loop1") /\ thrownAt \notin Loop1Lines

\* the object search ran to its end
ObjectSearchDone == ip > AtOp("loop2") /\ thrownAt = 0

\* min(w,h)/max(w,h) lies strictly within 0.15 of 210/297, that is strictly
\* between 1103/1980 and 1697/1980
RatioWithinTolerance(width, height) ==
    LET mn == Min(width, height)
        mx == Max(width, height)
    IN  mx > 0 /\ 1103 * mx < 1980 * mn /\ 1980 * mn < 1697 * mx

\* the accepted candidates of a contour sequence, by index
Accepted(cs) ==
    { k \in 1..Len(cs) : /\ cs[k].area >= 10000
                         /\ cs[k].rows = 4
                         /\ RatioWithinTolerance(cs[k].width, cs[k].height) }

\* k is the first of the largest among the indices S of cs (0 stands for none)
FirstLargest(k, S, cs) ==
    IF S = {} THEN k = 0
    ELSE /\ k \in S
         /\ \A j \in S : cs[j].area <= cs[k].area
         /\ \A j \in S : cs[j].area = cs[k].area => k <= j

\* the region has a positive width and height
RegionKnown == pixelsPerMm # Null /\ warpedSize[1] > 0 /\ warpedSize[2] > 0

\* area lies strictly between min(1000, 0.5% of A) and 90% of A
InsideOpen(area, A) == (area > 1000 \/ 200 * area > A) /\ 10 * area < 9 * A

\* area lies between the same thresholds, the thresholds included
InsideClosed(area, A) == (area >= 1000 \/ 200 * area >= A) /\ 10 * area <= 9 * A

OpenCandidates ==
    { k \in 1..Len(objectContours) : InsideOpen(objectContours[k].area, warpedImageArea) }

ClosedCandidates ==
    { k \in 1..Len(objectContours) : InsideClosed(objectContours[k].area, warpedImageArea) }

\* C1: when a primitive call or an allocation throws, every buffer the run
\* allocated has been released by the time the call returns to its caller.
C1_AllReleasedAfterThrow ==
    (Returned /\ thrownAt # 0) => live = {}

\* C2: for a region of positive width and height the calibration scale is
\* max(w, h) / 297, in landscape and in portrait or square alike.
C2_ScaleIsLongSideOver297 ==
    RegionKnown =>
        FracEq(pixelsPerMm, Frac(Max(warpedSize[1], warpedSize[2]), 297))

\* C3: the calibration scale is the one the code computes for the same region
\* rotated by 90 degrees, (h, w) for (w, h).
C3_ScaleRotationInvariant ==
    RegionKnown =>
        FracEq(pixelsPerMm, PixelsPerMm(warpedSize[2], warpedSize[1]))

\* C4 as claimed: the contour measured is the first largest of those whose area
\* lies in [minArea, maxArea], the bounds included.
C4_InclusiveBounds ==
    ObjectSearchDone => FirstLargest(largestSel, ClosedCandidates, objectContours)

\* C4 as amended: a contour is a candidate exactly when its area lies strictly
\* between minArea and maxArea; the contour measured is the first largest of these
\* (an area equal to minArea or to maxArea is excluded).
C4_ExclusiveBounds ==
    ObjectSearchDone =>
        /\ FirstLargest(largestSel, OpenCandidates, objectContours)
        /\ (ref["largestObjectContour"] = NoBuf) = (OpenCandidates = {})

\* a contour whose area equals maxArea exactly (or minArea exactly) was examined
\* and not chosen, while another one was
C4_Witness ==
    /\ ObjectSearchDone
    /\ largestSel # 0
    /\ \E k \in 1..Len(objectContours) :
          /\ k # largestSel
          /\ \/ 10 * objectContours[k].area = 9 * warpedImageArea
             \/ objectContours[k].area = 1000 /\ 200 * 1000 <= warpedImageArea

\* a sheet was accepted and nothing threw
CleanRunWithSheet ==
    cvLoaded /\ selectedImage # "none" /\ thrownAt = 0 /\ Accepted(contours) # {}

\* C5 as claimed: the call resolves to null only when the library is not loaded,
\* the image is missing or fails to decode (the await at line 342 rejects), or no
\* sheet was accepted; every other run resolves to a measurement.
C5_NullOnlyForUnavailable ==
    Returned =>
        (ret = Null) = \/ ~cvLoaded
                       \/ selectedImage = "none"
                       \/ thrownAt = 342
                       \/ (SheetSearchDone /\ thrownAt = 0 /\ Accepted(contours) = {})

\* C5 as amended: the call resolves to null only when the library is not loaded,
\* the image is missing, no sheet was accepted, or some stage threw (image decoding
\* included); a run in which nothing throws and a sheet is accepted resolves to a
\* measurement, never to null.
C5_NullOnlyForUnavailableOrThrow ==
    Returned =>
        /\ ret = Null => \/ ~cvLoaded
                         \/ selectedImage = "none"
                         \/ thrownAt # 0
                         \/ (SheetSearchDone /\ Accepted(contours) = {})
        /\ CleanRunWithSheet =>
              /\ ret \notin {Null, Rejected, Pending}
              /\ ret.imageUrl \in {"result", "closed"}

\* a stage failed after the sheet was found, and the call resolved to null; and
\* a clean run measured nothing and resolved to the zero measurement
C5_Witness ==
    /\ Returned
    /\ \/ thrownAt > 390 /\ a4Sel # 0 /\ ret = Null
       \/ CleanRunWithSheet /\ largestSel = 0 /\ ret # Null

\* C6: when no sheet is accepted the page is handed a measurement (empty or zero)
\* and not the null it is handed for a failure.
C6_NoSheetIsNotNull ==
    (Cur.op = "done" /\ cvLoaded /\ selectedImage # "none" /\ thrownAt = 0
        /\ Accepted(contours) = {})
    => objectMeasurement # Null

\* C7: when the sheet is found and no contour qualifies by area (nothing having
\* thrown), the call resolves to the zero measurement whose image renders the
\* closed mask and which carries the six debug images; a measurement derived from
\* a contour is returned only when a contour qualifies.
C7_ZeroResultWhenNoObject ==
    (Returned /\ CleanRunWithSheet) =>
        /\ OpenCandidates = {} =>
              ret = [ widthMm |-> 0, heightMm |-> 0, areaMm2 |-> 0,
                      imageUrl |-> "closed",
                      debugImages |-> [ warped |-> "warped", equalized |-> "equalized",
                                        thresh |-> "thresh", edges |-> "warpedEdges",
                                        combined |-> "combined", closed |-> "closed" ] ]
        /\ ret.imageUrl = "result" => ClosedCandidates # {} /\ OpenCandidates # {}
        /\ ret.imageUrl \in {"result", "closed"}

\* contours were traced on the mask, none qualified, the zero measurement came back
C7_Witness ==
    /\ Returned /\ CleanRunWithSheet
    /\ Len(objectContours) > 0
    /\ OpenCandidates = {}
    /\ ret.widthMm = 0 /\ ret.imageUrl = "closed"

\* C8: the sheet search selects the first of the largest accepted candidates
\* (area >= 10000, 4 vertices, aspect ratio accepted) and reports "not found"
\* exactly when none is accepted; so does the search of detectA4Sheet.
C8_LargestAcceptedFirstOnTie ==
    SheetSearchDone =>
        /\ FirstLargest(a4Sel, Accepted(contours), contours)
        /\ (ref["a4Contour"] = NoBuf) = (Accepted(contours) = {})
        /\ FirstLargest(bestContour(contours), Accepted(contours), contours)

\* two accepted candidates share the largest area and the first was selected
C8_Witness ==
    /\ SheetSearchDone
    /\ \E j, k \in Accepted(contours) :
          j < k /\ contours[j].area = contours[k].area /\ a4Sel = j
          /\ contours[j].area = 240000

\* side lengths of the bounding rectangles the aspect test is compared on, in
\* addition to those of the traced contours; 1697 x 1980 and 1103 x 1980 sit
\* exactly on the tolerance
RectSides == (0..40) \cup {210, 297, 1103, 1697, 1980}

\* C9: a 4-vertex contour that is large enough is accepted exactly when the ratio
\* of its bounding rectangle is within 0.15 of 210/297, the verdict is the same
\* for (w, h) and (h, w), and a square is never accepted: a run whose only large
\* quadrilaterals are squares finds no sheet.
C9_AspectAcceptance ==
    /\ Cur.op = "findContours" =>
          \A w, h \in RectSides :
              /\ AspectMatches(w, h) = RatioWithinTolerance(w, h)
              /\ AspectMatches(w, h) = AspectMatches(h, w)
              /\ ~AspectMatches(w, w)
    /\ \A k \in 1..Len(contours) :
          /\ AspectMatches(contours[k].width, contours[k].height)
               = RatioWithinTolerance(contours[k].width, contours[k].height)
          /\ AspectMatches(contours[k].width, contours[k].height)
               = AspectMatches(contours[k].height, contours[k].width)
          /\ contours[k].width = contours[k].height
               => ~AspectMatches(contours[k].width, contours[k].height)
    /\ SheetSearchDone =>
          /\ a4Sel # 0 =>
                RatioWithinTolerance(contours[a4Sel].width, contours[a4Sel].height)
          /\ (\E k \in 1..Len(contours) :
                 /\ contours[k].area >= 10000 /\ contours[k].rows = 4
                 /\ RatioWithinTolerance(contours[k].width, contours[k].height))
             => a4Sel # 0
          /\ (\A k \in 1..Len(contours) :
                 (contours[k].area >= 10000 /\ contours[k].rows = 4)
                    => contours[k].width = contours[k].height)
             => /\ a4Sel = 0
                /\ (Returned /\ cvLoaded /\ selectedImage # "none") => ret = Null

\* the only large quadrilateral was a square, the search ended, no sheet was found
C9_Witness ==
    /\ Returned /\ thrownAt = 0
    /\ Len(contours) > 0
    /\ \A k \in 1..Len(contours) :
          contours[k].rows = 4 /\ contours[k].width = contours[k].height
    /\ ret = Null

\* the same image scaled by n/d: lengths scale by n/d, areas by (n/d)^2 (to whole
\* pixels); the vertex count of the approximation, whose tolerance is relative to
\* the perimeter, stays
ScaleContour(c, n, d) ==
    [ area   |-> (c.area * n * n) \div (d * d),
      rows   |-> c.rows,
      width  |-> (c.width * n) \div d,
      height |-> (c.height * n) \div d ]

ScaleImage(cs, n, d) == [k \in 1..Len(cs) |-> ScaleContour(cs[k], n, d)]

\* scale factors <<n, d>>: 1/3, 1/2, 2, 3
Scales == { <<1, 3>>, <<1, 2>>, <<2, 1>>, <<3, 1>> }

\* the sheet found has the aspect ratio 210:297 exactly
FoundExactA4 ==
    /\ SheetSearchDone
    /\ a4Sel # 0
    /\ Min(contours[a4Sel].width, contours[a4Sel].height) * 297
         = Max(contours[a4Sel].width, contours[a4Sel].height) * 210

\* C10 as claimed: a found sheet of aspect ratio exactly 210:297 is still found
\* in the same image scaled by any positive factor, enlarging or shrinking.
C10_FoundAtEveryScale ==
    FoundExactA4 =>
        \A s \in Scales : bestContour(ScaleImage(contours, s[1], s[2])) = a4Sel

\* C10 as amended: a found sheet of aspect ratio exactly 210:297 is still found
\* in the same image scaled by any factor that leaves the sheet's area at or
\* above the minimum of 10000 px^2 (every enlarging factor does); a factor that
\* takes its area below the minimum makes the search report "not found" for it.
C10_FoundWhileAreaAboveMinimum ==
    FoundExactA4 =>
        \A s \in Scales :
            LET scaled == ScaleImage(contours, s[1], s[2])
            IN  IF scaled[a4Sel].area >= 10000
                THEN bestContour(scaled) = a4Sel
                ELSE bestContour(scaled) # a4Sel

\* a sheet of exact ratio was found, one shrinking factor keeps its area above the
\* minimum and another takes it below
C10_Witness ==
    /\ FoundExactA4
    /\ \E s \in Scales :
          s[1] < s[2] /\ ScaleContour(contours[a4Sel], s[1], s[2]).area >= 10000
    /\ \E s \in Scales :
          s[1] < s[2] /\ ScaleContour(contours[a4Sel], s[1], s[2]).area < 10000

\* r tenths is a whole number nearest to 10 * px * d / n (n/d in lowest terms)
NearestTenth(r, px, n, d) ==
    LET whole == px \div n
        part == px % n
    IN  /\ r \in Nat
        /\ 2 * Abs(10 * part * d - (r - 10 * whole * d) * n) <= n

\* a fraction in lowest terms
Lowest(f) == Frac(f.num \div Gcd(f.num, f.den), f.den \div Gcd(f.num, f.den))

\* the call resolved to a measurement derived from a contour
MeasurementReturned ==
    Returned /\ ret \notin {Null, Rejected, Pending} /\ ret.imageUrl = "result"

\* C11: when an object contour is selected, widthMm and heightMm are the sides of
\* its bounding rectangle divided by pixelsPerMm and areaMm2 is the same contour's
\* area divided by pixelsPerMm squared, each rounded to one decimal (a whole
\* number of tenths, the nearest one); all three are >= 0.
C11_RoundedToOneDecimal ==
    MeasurementReturned =>
        /\ largestSel \in 1..Len(objectContours)
        /\ pixelsPerMm # Null /\ pixelsPerMm.num > 0
        /\ LET rect == objectContours[largestSel]
               s == Lowest(pixelsPerMm)
               s2 == Frac(s.num * s.num, s.den * s.den)
           IN  /\ NearestTenth(ret.widthMm, rect.width, s.num, s.den)
               /\ NearestTenth(ret.heightMm, rect.height, s.num, s.den)
               /\ NearestTenth(ret.areaMm2, rect.area, s2.num, s2.den)
               /\ ret.widthMm >= 0 /\ ret.heightMm >= 0 /\ ret.areaMm2 >= 0

\* a measurement came back whose width was rounded up to the next tenth
C11_Witness ==
    /\ MeasurementReturned
    /\ LET rect == objectContours[largestSel]
           s == Lowest(pixelsPerMm)
       IN  /\ ret.widthMm * s.num > 10 * rect.width * s.den
           /\ ret.areaMm2 > 0

\* C12: the global-threshold mask that enters the OR fusion was computed from the
\* contrast-equalized grayscale region (grayscale, then equalize, then threshold),
\* not from the un-equalized grayscale region.
C12_ThresholdFromEqualized ==
    "thresh" \in operands["combined1"] =>
        /\ operands["thresh"] = {"equalized"}
        /\ operands["equalized"] = {"warpedGray"}
        /\ operands["warpedGray"] = {"warped"}

\* the handles handed out by contours.get(i) and objectContours.get(i)
ContourHandles ==
    { Buf("contours.get", k) : k \in 0..Len(contours) }
      \cup { Buf("objectContours.get", k) : k \in 0..Len(objectContours) }

\* C13: on every exit path on which no primitive throws (no sheet found, the zero
\* result, the measurement) every buffer, contour vector, contour and cloned
\* contour the run obtained has been released, once, when the call returns.
C13_AllReleasedOnReturn ==
    (Returned /\ thrownAt = 0) => (live = {} /\ dbl = {})

\* the run is in the branch that converts pixels to millimetres (lines 546-605)
Converting == Cur.at \in 546..605 /\ Cur.op \notin {"settle", "done"}

\* C14: whenever a run reaches the measurement conversion the calibration scale
\* has been computed earlier in that run and is strictly positive; no measurement
\* is built before the scale is known, and a region of zero width or zero height
\* never leads to a returned measurement.
C14_ScalePositiveBeforeConversion ==
    /\ Converting =>
          /\ pixelsPerMm # Null
          /\ pixelsPerMm.num > 0 /\ pixelsPerMm.den > 0
          /\ FracEq(pixelsPerMm, PixelsPerMm(warpedSize[1], warpedSize[2]))
    /\ pixelsPerMm = Null => measurements = Null
    /\ (Returned /\ ret \notin {Null, Rejected, Pending}) =>
          /\ warpedSize[1] > 0 /\ warpedSize[2] > 0
          /\ pixelsPerMm # Null /\ pixelsPerMm.num > 0

\* a degenerate rectangle was among the large quadrilaterals examined, and the run
\* went on to convert and return a measurement of another region
C14_Witness ==
    /\ MeasurementReturned
    /\ \E k \in 1..Len(contours) :
          /\ contours[k].rows = 4 /\ contours[k].area >= 10000
          /\ contours[k].width = 0 \/ contours[k].height = 0

\* C16: no buffer is released more than once on any path; in particular, when a
\* better sheet candidate replaces the current one and the cloning (or a later
\* step) throws, the finally block does not release an already released buffer.
C16_NoDoubleRelease == dbl = {}

\* C18: on every sequence of contours the sheet search of detectObjectOnA4 and the
\* one of detectA4Sheet find a sheet in the same cases and select the same contour
\* index; detectA4Sheet draws the outline exactly when detectObjectOnA4 goes past
\* sheet location (does not return null for "no sheet").
C18_SheetSearchesAgree ==
    SheetSearchDone =>
        /\ bestContour(contours) = a4Sel
        /\ (bestContour(contours) # 0) = (ref["a4Contour"] # NoBuf)
        /\ (cvLoaded /\ selectedImage = "ok" /\ thrownAt = 0) =>
              /\ (ip > AtOp("checkSheet") /\ Cur.op \notin {"finally", "settle", "done"})
                    => detectA4SheetShows(contours) = "result"
              /\ Returned => ((detectA4SheetShows(contours) = "result") = (ret # Null))

\* two accepted candidates were traced (the second one replacing the first, or
\* equal to it in area), and the run went past sheet location to its result
C18_Witness ==
    /\ SheetSearchDone /\ Returned /\ thrownAt = 0
    /\ Cardinality(Accepted(contours)) = 2
    /\ a4Sel # 0 /\ ret # Null
    /\ detectA4SheetShows(contours) = "result"

\* the numeric fields of a measurement
Numbers(m) == <<m.widthMm, m.heightMm, m.areaMm2>>

\* the invocations of detectObjectOnA4 that have returned a measurement
ReturnedMeasurements == { k \in 1..Len(calls) : /\ calls[k].fn = "measureObject"
                                                /\ calls[k].stage = "returned"
                                                /\ calls[k].result # Null }

\* in a single run the value returned is the one the function of the traced
\* contours gives (the run has no other input)
RunReturnsFunctionOfContours ==
    (Returned /\ cvLoaded /\ selectedImage = "ok" /\ thrownAt = 0) =>
        ret = detectObjectOnA4Returns(contours, objectContours)

C17_ShownResultsAreCurrent ==
    /\ bwImage # Null => bwImage.of = selectedImage
    /\ a4DetectionImage # Null => a4DetectionImage.of = selectedImage
    /\ objectMeasurement # Null => objectMeasurement.imageUrl.of = selectedImage

====
